---- MODULE Spec2Model ----
(***************************************************************************)
(* The G-code streaming loop of src/main.py: one G-code file is read line  *)
(* by line, comment lines drive the layer counter, the camera and the      *)
(* remaining-time estimate, command lines are written to the serial port   *)
(* and acknowledged, M109/M190 are followed by an M105 polling loop.       *)
(*                                                                         *)
(* Text is modelled character by character: a Python str is a sequence of  *)
(* one-character strings, so that strip, split, startswith, "in", lower,   *)
(* int(), float() and the f-string formatting of a float are computed the  *)
(* way the interpreter computes them.                                      *)
(***************************************************************************)
EXTENDS Integers, Sequences, FiniteSets, TLC

\* ------------------------------------------------------------------ bounds

\* Files are all sequences of at most MaxLines catalogue lines (plus the
\* longer scenario files named below).
MaxLines == 2

\* At most MaxSpins reads of one run may leave a blocking loop un-exited
\* (send_gcode's read loop, the M109 loop, the M190 loop are unbounded).
MaxSpins == 2

\* ------------------------------------------------------- Python's None

None == << >>

Some(x) == <<x>>

\* -------------------------------------------------------- str operations

Whitespace == {" ", "\t", "\n", "\r"}

Digits == <<"0","1","2","3","4","5","6","7","8","9">>

IsDigit(c) == \E k \in 1..10 : Digits[k] = c

DigitVal(c) == (CHOOSE k \in 1..10 : Digits[k] = c) - 1

UpperCase == <<"A","B","C","D","E","F","G","H","I","J","K","L","M",
               "N","O","P","Q","R","S","T","U","V","W","X","Y","Z">>

LowerCase == <<"a","b","c","d","e","f","g","h","i","j","k","l","m",
               "n","o","p","q","r","s","t","u","v","w","x","y","z">>

SetMin(S) == CHOOSE x \in S : \A y \in S : x <= y

SetMax(S) == CHOOSE x \in S : \A y \in S : x >= y

\* s.strip()
strip(s) ==
    LET keep == {k \in 1..Len(s) : s[k] \notin Whitespace}
    IN  IF keep = {} THEN << >> ELSE SubSeq(s, SetMin(keep), SetMax(keep))

\* s.startswith(p)
startswith(s, p) == Len(p) <= Len(s) /\ SubSeq(s, 1, Len(p)) = p

\* s.find(p) + 1: the first position where p occurs in s, 0 when it does not
find(s, p) ==
    LET at == {k \in 1..(Len(s) - Len(p) + 1) : SubSeq(s, k, k + Len(p) - 1) = p}
    IN  IF at = {} THEN 0 ELSE SetMin(at)

\* p in s
str_in(p, s) == find(s, p) # 0

\* s.lower()
lower(s) ==
    [k \in 1..Len(s) |->
        IF \E j \in 1..26 : UpperCase[j] = s[k]
        THEN LowerCase[CHOOSE j \in 1..26 : UpperCase[j] = s[k]]
        ELSE s[k]]

RECURSIVE split(_, _)
\* s.split(sep): the list of the pieces of s between the occurrences of sep
split(s, sep) ==
    LET k == find(s, sep)
    IN  IF k = 0 THEN <<s>>
        ELSE <<SubSeq(s, 1, k - 1)>> \o split(SubSeq(s, k + Len(sep), Len(s)), sep)

RECURSIVE split_ws(_)
\* s.split(): the whitespace-separated words of s, none of them empty
split_ws(s) ==
    LET t == strip(s)
        ws == {k \in 1..Len(t) : t[k] \in Whitespace}
    IN  IF t = << >> THEN << >>
        ELSE IF ws = {} THEN <<t>>
        ELSE <<SubSeq(t, 1, SetMin(ws) - 1)>> \o split_ws(SubSeq(t, SetMin(ws), Len(t)))

\* ----------------------------------------------------------- numbers
\* A Python number is the decimal m / 10^e, kept normalised (no trailing
\* zero in the fraction): 200.0 is [m |-> 200, e |-> 0], 12.5 is
\* [m |-> 125, e |-> 1]. An int is a number with e = 0.

RECURSIVE Pow10(_)
Pow10(n) == IF n = 0 THEN 1 ELSE 10 * Pow10(n - 1)

RECURSIVE Norm(_, _)
Norm(m, e) == IF e > 0 /\ m % 10 = 0 THEN Norm(m \div 10, e - 1) ELSE [m |-> m, e |-> e]

IntNum(n) == [m |-> n, e |-> 0]

NumSub(a, b) ==
    LET e == IF a.e >= b.e THEN a.e ELSE b.e
    IN  Norm(a.m * Pow10(e - a.e) - b.m * Pow10(e - b.e), e)

NumGE(a, b) == a.m * Pow10(b.e) >= b.m * Pow10(a.e)

RECURSIVE NatOf(_)
\* the value of a string of decimal digits
NatOf(u) == IF u = << >> THEN 0 ELSE 10 * NatOf(SubSeq(u, 1, Len(u) - 1)) + DigitVal(u[Len(u)])

RECURSIVE NatStr(_)
\* str(n) for n >= 0
NatStr(n) == IF n < 10 THEN <<Digits[n + 1]>> ELSE NatStr(n \div 10) \o <<Digits[(n % 10) + 1]>>

AllDigits(u) == \A k \in 1..Len(u) : IsDigit(u[k])

Unsigned(t) == IF t # << >> /\ t[1] \in {"+", "-"} THEN Tail(t) ELSE t

Negative(t) == t # << >> /\ t[1] = "-"

\* int(s): Some(n), or None where Python raises ValueError. Surrounding
\* whitespace and one sign are accepted.
py_int(s) ==
    LET t == strip(s)
        u == Unsigned(t)
    IN  IF u # << >> /\ AllDigits(u)
        THEN Some(IF Negative(t) THEN 0 - NatOf(u) ELSE NatOf(u))
        ELSE None

\* float(s): Some(number), or None where Python raises ValueError, for the
\* plain decimal literals [sign] digits [. digits] (no exponent, inf, nan).
py_float(s) ==
    LET t == strip(s)
        u == Unsigned(t)
        p == split(u, <<".">>)
        sgn == IF Negative(t) THEN 0 - 1 ELSE 1
    IN  IF Len(p) = 1 /\ u # << >> /\ AllDigits(u)
        THEN Some(IntNum(sgn * NatOf(u)))
        ELSE IF Len(p) = 2 /\ AllDigits(p[1]) /\ AllDigits(p[2]) /\ p[1] \o p[2] # << >>
        THEN Some(Norm(sgn * NatOf(p[1] \o p[2]), Len(p[2])))
        ELSE None

\* the digits of the fraction of x, e of them, zero-padded on the left
FracStr(x) ==
    LET a == IF x.m < 0 THEN 0 - x.m ELSE x.m
        d == NatStr(a % Pow10(x.e))
    IN  [k \in 1..(x.e - Len(d)) |-> "0"] \o d

\* str(x) of a float x, as an f-string prints it: 200.0, 12.5, -2.5
float_str(x) ==
    LET a == IF x.m < 0 THEN 0 - x.m ELSE x.m
    IN  (IF x.m < 0 THEN <<"-">> ELSE << >>)
        \o NatStr(a \div Pow10(x.e)) \o <<".">>
        \o (IF x.e = 0 THEN <<"0">> ELSE FracStr(x))

\* int(x) of a number: truncation towards zero
trunc(x) == IF x.m >= 0 THEN x.m \div Pow10(x.e) ELSE 0 - ((0 - x.m) \div Pow10(x.e))

\* ------------------------------------------------- functions of main.py

\* clean_line(line): the text before the first ';', stripped
clean_line(l) == strip(split(l, <<";">>)[1])

\* parse_temp(line): float of what follows the first "S" of the cleaned
\* line; None when there is no "S" or float() raises
parse_temp(l) ==
    LET c == clean_line(l)
    IN  IF str_in(<<"S">>, c) THEN py_float(split(c, <<"S">>)[2]) ELSE None

TwoDigits(n) == IF n < 10 THEN <<"0">> \o NatStr(n) ELSE NatStr(n)

IntStr(n) == IF n < 0 THEN <<"-">> \o NatStr(0 - n) ELSE NatStr(n)

\* str(datetime.timedelta(seconds=n)): [D day[s], ]H:MM:SS with the days
\* rounded down, so that -2 seconds print as "-1 day, 23:59:58"
timedelta_str(n) ==
    LET days == n \div 86400
        secs == n % 86400
        hh == secs \div 3600
        mm == (secs % 3600) \div 60
        ss == secs % 60
        tail == NatStr(hh) \o <<":">> \o TwoDigits(mm) \o <<":">> \o TwoDigits(ss)
    IN  IF days = 0 THEN tail
        ELSE IntStr(days) \o <<" ","d","a","y">>
             \o (IF days \in {1, 0 - 1} THEN << >> ELSE <<"s">>)
             \o <<","," ">> \o tail

\* format_time(seconds)
format_time(seconds) == timedelta_str(trunc(seconds))

\* a remaining time clamped at zero
Remaining_clamped(total, elapsed) ==
    IF NumGE(elapsed, IntNum(total)) THEN IntNum(0) ELSE NumSub(IntNum(total), elapsed)

\* line 193: remaining_time = total_time - elapsed_time
Remaining(total, elapsed) == NumSub(IntNum(total), elapsed)

\* only blank lines skipped, comments taken for commands
IsCommentOrBlank_blank(l) == l = << >>

\* line 172: the line is blank or a comment
IsCommentOrBlank(l) == l = << >> \/ startswith(l, <<";">>)

\* every non-blank line counted, comments included
IsCounted_nonblank(raw_line) == strip(raw_line) # << >>

\* line 146: the lines count_non_comment_lines counts
IsCounted(raw_line) ==
    strip(raw_line) # << >> /\ ~startswith(strip(raw_line), <<";">>)

\* the marker looked for without its ';'
IsLayerChange_bare(raw_line) ==
    str_in(<<"L","A","Y","E","R","_","C","H","A","N","G","E">>, raw_line)

\* the marker looked for at the start of the line only
IsLayerChange_prefix(raw_line) ==
    startswith(raw_line, <<";","L","A","Y","E","R","_","C","H","A","N","G","E">>)

\* line 174: the raw line carries the layer-change marker
IsLayerChange(raw_line) ==
    str_in(<<";","L","A","Y","E","R","_","C","H","A","N","G","E">>, raw_line)

\* a malformed ";TIME:" payload read as zero
ParseTotal_zero(l) ==
    IF startswith(l, <<";","T","I","M","E",":">>)
    THEN (IF py_int(split(l, <<":">>)[2]) = None THEN Some(0) ELSE py_int(split(l, <<":">>)[2]))
    ELSE None

\* lines 179-183: the total time a ";TIME:" line sets, None when the line is
\* no ";TIME:" line or int() raises ValueError
ParseTotal(l) ==
    IF startswith(l, <<";","T","I","M","E",":">>)
    THEN py_int(split(l, <<":">>)[2])
    ELSE None

\* lines 185-189: the elapsed time a ";TIME_ELAPSED:" line sets
ParseElapsed(l) ==
    IF ~startswith(l, <<";","T","I","M","E",":">>)
       /\ startswith(l, <<";","T","I","M","E","_","E","L","A","P","S","E","D",":">>)
    THEN py_float(split(l, <<":">>)[2])
    ELSE None

\* lines 182-183, 188-189: what is logged when the payload does not parse
InvalidFormat(l) ==
    IF startswith(l, <<";","T","I","M","E",":">>)
    THEN IF ParseTotal(l) = None
         THEN << <<"[!] Invalid TIME format", l>> >> ELSE << >>
    ELSE IF startswith(l, <<";","T","I","M","E","_","E","L","A","P","S","E","D",":">>)
            /\ ParseElapsed(l) = None
         THEN << <<"[!] Invalid TIME_ELAPSED format", l>> >> ELSE << >>

\* lines 203, 208, 221: the three heating commands
IsM104(l) == startswith(l, <<"M","1","0","4">>)

IsM109(l) == startswith(l, <<"M","1","0","9">>)

IsM190(l) == startswith(l, <<"M","1","9","0">>)

IsHeating(l) == IsM104(l) \/ IsM109(l) \/ IsM190(l)

\* every command line written, with or without a target
IsSent_always(l) == TRUE

\* lines 203-242: whether the command line is written to the printer; a
\* heating command is written only when parse_temp gave a target
IsSent(l) == IsHeating(l) => parse_temp(l) # None

\* any non-empty line taken for the acknowledgment
Acknowledged_any(rx) == rx # << >>

\* line 107: the line acknowledges the command
Acknowledged(rx) == str_in(<<"o","k">>, lower(rx))

\* line 218: the M109 loop breaks on this response
NozzleReached(rx, tgt) ==
    Acknowledged(rx) /\ str_in(<<"T",":">> \o float_str(tgt), rx)

\* lines 235: float(resp.split("B:")[1].split()[0]); None on IndexError or
\* ValueError
BedTemp(rx) ==
    LET words == split_ws(split(rx, <<"B",":">>)[2])
    IN  IF words = << >> THEN None ELSE py_float(words[1])

\* the bed temperature compared with > instead of >=
BedReached_above(rx, tgt) ==
    /\ rx # << >>
    /\ Acknowledged(rx)
    /\ str_in(<<"B",":">>, rx)
    /\ BedTemp(rx) # None
    /\ ~NumGE(tgt, BedTemp(rx)[1])

\* lines 229-239: the M190 loop breaks on this response
BedReached(rx, tgt) ==
    /\ rx # << >>
    /\ Acknowledged(rx)
    /\ str_in(<<"B",":">>, rx)
    /\ BedTemp(rx) # None
    /\ NumGE(BedTemp(rx)[1], tgt)

\* a capture that ends the run when the camera is off or the picture fails
take_picture_raises(record) ==
    IF ~record THEN {} ELSE {"saved"}

\* lines 112-123: what take_picture can do with the camera
take_picture(record) ==
    IF ~record THEN {"off"} ELSE {"saved", "save_failed", "read_failed"}

\* lines 112-123: what take_picture logs
PictureStatus(result, n) ==
    CASE result = "saved" -> << <<"Saved picture", NatStr(n)>> >>
      [] result = "save_failed" -> << <<"[!] Failed to save image", NatStr(n)>> >>
      [] result = "read_failed" -> << <<"[!] Failed to capture image", << >> >> >>
      [] OTHER -> << >>

\* line 199
MissingTime == <<"[!] Missing ;TIME comment in G-code", << >> >>

M105 == <<"M","1","0","5">>

\* ------------------------------------------------------------ the inputs
\* Lines of a G-code file.

G28 == <<"G","2","8">>

LAYER_CHANGE == <<";","L","A","Y","E","R","_","C","H","A","N","G","E">>

M109_S200 == <<"M","1","0","9"," ","S","2","0","0">>

G1_X10 == <<"G","1"," ","X","1","0">>

G1_X5_note == <<" ","G","1"," ","X","5"," ",";","a">>

SPACED_LAYER_CHANGE == <<";"," ","L","A","Y","E","R","_","C","H","A","N","G","E">>

WRAPPED_LAYER_CHANGE == <<";","a"," ",";","L","A","Y","E","R","_","C","H","A","N","G","E"," ","b">>

M109_S200_T0 == <<"M","1","0","9"," ","S","2","0","0"," ","T","0">>

M109_bare == <<"M","1","0","9">>

M190_S60 == <<"M","1","9","0"," ","S","6","0">>

M104_S210_5 == <<"M","1","0","4"," ","S","2","1","0",".","5">>

TIME_100 == <<";","T","I","M","E",":","1","0","0">>

TIME_10 == <<";","T","I","M","E",":","1","0">>

TIME_ELAPSED_12_5 == <<";","T","I","M","E","_","E","L","A","P","S","E","D",":","1","2",".","5">>

TIME_abc == <<";","T","I","M","E",":","a","b","c">>

TIME_ELAPSED_abc == <<";","T","I","M","E","_","E","L","A","P","S","E","D",":","a","b","c">>

BLANK_LINE == <<" ">>

NOTE == <<";","c">>

Lines ==
    { G28, LAYER_CHANGE, M109_S200, G1_X10, G1_X5_note, SPACED_LAYER_CHANGE,
      WRAPPED_LAYER_CHANGE, M109_S200_T0, M109_bare, M190_S60, M104_S210_5,
      TIME_100, TIME_10, TIME_ELAPSED_12_5, TIME_abc, TIME_ELAPSED_abc,
      BLANK_LINE, NOTE }

\* the end-to-end file G28 / ;LAYER_CHANGE / M109 S200 / G1 X10
E2EFile == <<G28, LAYER_CHANGE, M109_S200, G1_X10>>

\* a file of time annotations: remaining time 100, 87.5, -2.5, -2.5
TimeFile == <<TIME_100, TIME_ELAPSED_12_5, TIME_10, NOTE>>

\* annotations and layer-change markers on one line
TIME_100_LAYER_CHANGE == <<";","T","I","M","E",":","1","0","0"," ",";","L","A","Y","E","R","_","C","H","A","N","G","E">>

TIME_100_colon_LAYER_CHANGE == <<";","T","I","M","E",":","1","0","0",":",";","L","A","Y","E","R","_","C","H","A","N","G","E">>

TIME_ELAPSED_12_5_colon_LAYER_CHANGE == <<";","T","I","M","E","_","E","L","A","P","S","E","D",":","1","2",".","5",":",";","L","A","Y","E","R","_","C","H","A","N","G","E">>

MixedFile == <<TIME_100_LAYER_CHANGE, TIME_100_colon_LAYER_CHANGE,
               TIME_ELAPSED_12_5_colon_LAYER_CHANGE>>

Files == (UNION {[1..n -> Lines] : n \in 0..MaxLines}) \cup {E2EFile, TimeFile, MixedFile}

\* Lines the printer sends (ser.readline() before decode and strip); the
\* empty line is a read that timed out.

rx_timeout == << >>

rx_ok == <<"o","k","\n">>

rx_busy == <<"e","c","h","o",":","b","u","s","y">>

rx_ok_T200 == <<"o","k"," ","T",":","2","0","0">>

rx_ok_T200_0_B60_5 == <<"o","k"," ","T",":","2","0","0",".","0"," ","B",":","6","0",".","5"," ","@",":","0">>

rx_ok_T199_9_B59_9 == <<"o","k"," ","T",":","1","9","9",".","9"," ","B",":","5","9",".","9">>

rx_ok_T200_05 == <<"o","k"," ","T",":","2","0","0",".","0","5">>

rx_T200_0_B60_5 == <<"T",":","2","0","0",".","0"," ","B",":","6","0",".","5">>

rx_OK_T200_0_B60 == <<"O","K"," ","T",":","2","0","0",".","0"," ","B",":","6","0">>

rx_ok_B_abc == <<"o","k"," ","B",":","a","b","c">>

rx_ok_B_none == <<"o","k"," ","B",":">>

Responses ==
    { rx_timeout, rx_ok, rx_busy, rx_ok_T200, rx_ok_T200_0_B60_5,
      rx_ok_T199_9_B59_9, rx_ok_T200_05, rx_T200_0_B60_5, rx_OK_T200_0_B60,
      rx_ok_B_abc, rx_ok_B_none }

\* ser.readline().decode(errors="ignore").strip()
readline(rx) == strip(rx)

\* ------------------------------------------------------ what a line means
\* What lines 171-242 compute from one raw line of the file, and what lines
\* 104-107, 215-218 and 228-236 compute from one line read from the printer.
\* Both depend on the text alone, so they are computed once per text
\* (Decoded, Heard) and looked up by the actions.

Decode(raw_line) ==
    LET l == strip(raw_line)
    IN  [ line         |-> l,
          comment      |-> IsCommentOrBlank(l),
          layer_change |-> IsLayerChange(raw_line),
          total        |-> ParseTotal(l),
          elapsed      |-> ParseElapsed(l),
          heating      |-> IsHeating(l),
          target       |-> parse_temp(l),
          sent         |-> IsSent(l),
          counted      |-> IsCounted(raw_line),
          invalid      |-> InvalidFormat(l),
          waiting      |-> IF parse_temp(l) = None THEN << >>
                           ELSE float_str(parse_temp(l)[1]) ]

FileLines ==
    Lines \cup {E2EFile[k] : k \in 1..Len(E2EFile)}
          \cup {TimeFile[k] : k \in 1..Len(TimeFile)}
          \cup {MixedFile[k] : k \in 1..Len(MixedFile)}

Decoded == [raw_line \in FileLines |-> Decode(raw_line)]

\* lines 143-146
count_non_comment_lines(file) ==
    Cardinality({k \in 1..Len(file) : Decoded[file[k]].counted})

\* the targets the heating commands of the catalogue set
Targets == {Decoded[l].target[1] : l \in {x \in FileLines : Decoded[x].heating /\ Decoded[x].target # None}}

Hear(rx) ==
    LET r == readline(rx)
    IN  [ line   |-> r,
          ack    |-> Acknowledged(r),
          nozzle |-> [t \in Targets |-> NozzleReached(r, t)],
          bed    |-> [t \in Targets |-> BedReached(r, t)],
          logged |-> IF r = << >> THEN << >> ELSE << <<"[->] Printer:", r>> >>,
          polled |-> IF r = << >> THEN << >> ELSE << <<"[<-]", r>> >> ]

Heard == [rx \in Responses |-> Hear(rx)]

\* ------------------------------------------------------------- the state

VARIABLES
    f,              \* the lines of GCODE_FILE (none when the file is missing)
    exists,         \* whether open(GCODE_FILE) finds the file
    RECORD,         \* args.record
    ser,            \* the serial port: "unopened", "open" or "closed"
    cap,            \* the camera: "none", "open" or "released"
    total_lines,    \* None until line 148 has run, then Some(count)
    lineno,         \* how many lines of f the for loop has taken
    pc,             \* "start", "count", "loop", "send_gcode", "M109", "M190",
                    \* "done", or "crashed" / "interrupted" (ended by an
                    \* exception nothing catches)
    line,           \* the stripped line being processed
    target,         \* parse_temp(line) of the heating command being processed
    layer,          \* the layer counter
    total_time,     \* None, or Some(seconds)
    warnings,       \* how often the missing-;TIME warning was logged
    elapsed_time,   \* a number
    remaining_time, \* None until line 193 first runs, then Some(number)
    description,    \* the texts given to progress_bar.set_description
    progress,       \* progress_bar.n
    written,        \* the commands written to ser, oldest first
    resp,           \* the last line read from ser
    captures,       \* the calls of take_picture: layer and what came of it
    status,         \* what the last step logged (tqdm.write, print): <<tag, text>>
    spins,          \* reads that left a blocking loop un-exited
    printer,        \* what is at the other end of the port: "any" sends any
                    \* line at any time, "ok" answers each command with one
                    \* line that holds ok
    unread          \* the answers the "ok" printer owes or has sent that the
                    \* script has not read yet

vars == <<f, exists, RECORD, ser, cap, total_lines, lineno, pc, line, target,
          layer, total_time, warnings, elapsed_time, remaining_time,
          description, progress, written, resp, captures, status, spins,
          printer, unread>>

\* lines 1-83: the state when the script has read its arguments
Start ==
    /\ exists \in BOOLEAN
    /\ f \in (IF exists THEN Files ELSE {<< >>})
    /\ RECORD \in BOOLEAN
    /\ ser = "unopened"
    /\ cap = "none"
    /\ total_lines = None
    /\ lineno = 0
    /\ pc = "start"
    /\ line = << >>
    /\ target = None
    /\ layer = 0
    /\ total_time = None
    /\ warnings = 0
    /\ elapsed_time = IntNum(0)
    /\ remaining_time = None
    /\ description = << >>
    /\ progress = 0
    /\ written = << >>
    /\ resp = << >>
    /\ captures = << >>
    /\ status = << >>
    /\ spins = 0
    /\ unread = 0

Init == Start /\ printer = "any"

\* the same start, the "ok" printer attached
InitPrinter == Start /\ printer = "ok"

\* line 101, 214, 227: a command was written; the "ok" printer owes an answer
Sent(u) == IF printer = "ok" THEN u + 1 ELSE u

\* line 104, 215, 228: a line was read; unless the read timed out, it was
\* the oldest answer of the "ok" printer
Read(u, rx) == IF printer = "ok" /\ rx # rx_timeout THEN u - 1 ELSE u

\* what the "ok" printer answers to a command
Answers(cmd) ==
    IF cmd = M105 THEN {rx_ok_T200_0_B60_5, rx_ok_T199_9_B59_9} ELSE {rx_ok}

\* line 104, 215, 228: what a read can return when w was written and u
\* answers are unread: the "ok" printer's oldest unread answer, or nothing
\* within the timeout
Readable(w, u) ==
    IF printer = "any" THEN Responses
    ELSE {rx_timeout} \cup (IF u > 0 THEN Answers(w[Len(w) - u + 1]) ELSE {})

\* -------------------------------------------------------------- actions

\* lines 84-96: the camera is opened when recording, then the serial port
OpenTransport ==
    /\ pc = "start"
    /\ cap' = IF RECORD THEN "open" ELSE "none"
    /\ ser' = "open"
    /\ pc' = "count"
    /\ status' = << >>
    /\ UNCHANGED <<f, exists, RECORD, printer, unread, total_lines, lineno,
                   line, target, layer, total_time, warnings, elapsed_time,
                   remaining_time, description, progress, written, resp,
                   captures, spins>>

\* lines 143-169: the first open of GCODE_FILE. A missing file raises
\* FileNotFoundError, which nothing catches: the script ends there.
CountLines ==
    /\ pc = "count"
    /\ status' = << >>
    /\ IF exists
       THEN /\ total_lines' = Some(count_non_comment_lines(f))
            /\ pc' = "loop"
       ELSE /\ pc' = "crashed"
            /\ UNCHANGED total_lines
    /\ UNCHANGED <<f, exists, RECORD, printer, unread, ser, cap, lineno, line,
                   target, layer, total_time, warnings, elapsed_time,
                   remaining_time, description, progress, written, resp,
                   captures, spins>>

\* lines 170-196: one iteration of the for loop on a blank or comment line
CommentLine ==
    /\ pc = "loop"
    /\ lineno < Len(f)
    /\ LET d == Decoded[f[lineno + 1]]
           tt == IF d.total # None THEN d.total ELSE total_time
           et == IF d.elapsed # None THEN d.elapsed[1] ELSE elapsed_time
       IN  /\ d.comment
           /\ lineno' = lineno + 1
           /\ line' = d.line
           /\ IF d.layer_change
              THEN /\ layer' = layer + 1
                   /\ \E result \in take_picture(RECORD) :
                        /\ captures' = Append(captures, [layer |-> layer + 1, result |-> result])
                        /\ status' = PictureStatus(result, layer + 1) \o d.invalid
              ELSE /\ UNCHANGED <<layer, captures>>
                   /\ status' = d.invalid
           /\ total_time' = tt
           /\ elapsed_time' = et
           /\ IF tt # None
              THEN /\ remaining_time' = Some(Remaining(tt[1], et))
                   /\ description' = Append(description, format_time(Remaining(tt[1], et)))
              ELSE UNCHANGED <<remaining_time, description>>
    /\ UNCHANGED <<f, exists, RECORD, printer, unread, ser, cap, total_lines,
                   pc, target, warnings, progress, written, resp, spins>>

\* lines 170-172, 198-244 up to the first read of the serial port: one
\* iteration of the for loop on a command line. The line is either written
\* to the printer (send_gcode, line 101) or, a heating command without a
\* target, dropped.
CommandLine ==
    /\ pc = "loop"
    /\ lineno < Len(f)
    /\ LET d == Decoded[f[lineno + 1]]
       IN  /\ ~d.comment
           /\ lineno' = lineno + 1
           /\ line' = d.line
           /\ total_time' = IF total_time = None THEN Some(0 - 1) ELSE total_time
           /\ warnings' = IF total_time = None THEN warnings + 1 ELSE warnings
           /\ status' = (IF total_time = None THEN <<MissingTime>> ELSE << >>)
                         \o (IF d.sent THEN << <<"[<-]", d.line>> >> ELSE << >>)
           /\ target' = IF d.heating THEN d.target ELSE target
           /\ IF d.sent
              THEN /\ written' = Append(written, d.line)
                   /\ unread' = Sent(unread)
                   /\ pc' = "send_gcode"
                   /\ UNCHANGED progress
              ELSE /\ progress' = progress + 1
                   /\ UNCHANGED <<written, unread, pc>>
    /\ UNCHANGED <<f, exists, RECORD, printer, ser, cap, total_lines, layer,
                   elapsed_time, remaining_time, description, resp, captures,
                   spins>>

\* lines 103-108: one turn of send_gcode's read loop; on "ok" send_gcode
\* returns, into the M109 or M190 loop or to line 244
AckOn(rx) ==
    /\ pc = "send_gcode"
    /\ resp' = Heard[rx].line
    /\ unread' = Read(unread, rx)
    /\ status' = Heard[rx].logged \o
                  (IF Heard[rx].ack /\ IsM109(line)
                   THEN << <<"Waiting for nozzle to reach", Decoded[f[lineno]].waiting>> >>
                   ELSE IF Heard[rx].ack /\ IsM190(line)
                   THEN << <<"Waiting for bed to reach", Decoded[f[lineno]].waiting>> >>
                   ELSE << >>)
    /\ IF Heard[rx].ack
       THEN /\ pc' = IF IsM104(line) THEN "loop"
                     ELSE IF IsM109(line) THEN "M109"
                     ELSE IF IsM190(line) THEN "M190"
                     ELSE "loop"
            /\ progress' = IF IsM109(line) \/ IsM190(line) THEN progress ELSE progress + 1
            /\ UNCHANGED spins
       ELSE /\ spins < MaxSpins
            /\ spins' = spins + 1
            /\ UNCHANGED <<pc, progress>>
    /\ UNCHANGED <<f, exists, RECORD, printer, ser, cap, total_lines, lineno,
                   line, target, layer, total_time, warnings, elapsed_time,
                   remaining_time, description, written, captures>>

\* lines 213-219: one turn of the M109 loop: poll, read, test
NozzlePollOn(rx) ==
    /\ pc = "M109"
    /\ written' = Append(written, M105)
    /\ resp' = Heard[rx].line
    /\ unread' = Read(Sent(unread), rx)
    /\ status' = Heard[rx].polled
    /\ IF Heard[rx].nozzle[target[1]]
       THEN /\ pc' = "loop"
            /\ progress' = progress + 1
            /\ UNCHANGED spins
       ELSE /\ spins < MaxSpins
            /\ spins' = spins + 1
            /\ UNCHANGED <<pc, progress>>
    /\ UNCHANGED <<f, exists, RECORD, printer, ser, cap, total_lines, lineno,
                   line, target, layer, total_time, warnings, elapsed_time,
                   remaining_time, description, captures>>

\* lines 226-239: one turn of the M190 loop: poll, read, test
BedPollOn(rx) ==
    /\ pc = "M190"
    /\ written' = Append(written, M105)
    /\ resp' = Heard[rx].line
    /\ unread' = Read(Sent(unread), rx)
    /\ status' = Heard[rx].polled
    /\ IF Heard[rx].bed[target[1]]
       THEN /\ pc' = "loop"
            /\ progress' = progress + 1
            /\ UNCHANGED spins
       ELSE /\ spins < MaxSpins
            /\ spins' = spins + 1
            /\ UNCHANGED <<pc, progress>>
    /\ UNCHANGED <<f, exists, RECORD, printer, ser, cap, total_lines, lineno,
                   line, target, layer, total_time, warnings, elapsed_time,
                   remaining_time, description, captures>>

\* lines 246-251: the file is exhausted
Finish ==
    /\ pc = "loop"
    /\ lineno = Len(f)
    /\ cap' = IF cap = "open" THEN "released" ELSE cap
    /\ ser' = "closed"
    /\ status' = << <<"Print finished", << >> >> >>
    /\ pc' = "done"
    /\ UNCHANGED <<f, exists, RECORD, printer, unread, total_lines, lineno,
                   line, target, layer, total_time, warnings, elapsed_time,
                   remaining_time, description, progress, written, resp,
                   captures, spins>>

\* a read returns any line the printer can have sent
Ack == \E rx \in Readable(written, unread) : AckOn(rx)

NozzlePoll == \E rx \in Readable(Append(written, M105), Sent(unread)) : NozzlePollOn(rx)

BedPoll == \E rx \in Readable(Append(written, M105), Sent(unread)) : BedPollOn(rx)

Next ==
    \/ OpenTransport \/ CountLines
    \/ CommentLine \/ CommandLine \/ Ack \/ NozzlePoll \/ BedPoll \/ Finish

Spec == Init /\ [][Next]_vars

\* The same program on a stub transport that answers every command with
\* "ok" and every M105 poll with "ok T:200".
StubAck == AckOn(rx_ok)

StubNozzlePoll == NozzlePollOn(rx_ok_T200)

StubBedPoll == BedPollOn(rx_ok_T200)

NextStub ==
    \/ OpenTransport \/ CountLines
    \/ CommentLine \/ CommandLine \/ StubAck \/ StubNozzlePoll \/ StubBedPoll \/ Finish

SpecStub == Init /\ [][NextStub]_vars

\* The same program on a printer that answers each command it receives with
\* one line holding ok, in order, each answer possibly later than a read's
\* timeout.
SpecPrinter == InitPrinter /\ [][Next]_vars

\* The same program with the ways a run can be cut short while it is blocked
\* on the serial port (lines 101-104, 214-215, 227-228): Ctrl-C raises
\* KeyboardInterrupt, a failing port raises SerialException. The script has
\* no try, finally or signal handler, so either one ends it on the spot.
Interrupt ==
    /\ pc \in {"send_gcode", "M109", "M190"}
    /\ pc' = "interrupted"
    /\ status' = << >>
    /\ UNCHANGED <<f, exists, RECORD, printer, unread, ser, cap, total_lines,
                   lineno, line, target, layer, total_time, warnings,
                   elapsed_time, remaining_time, description, progress,
                   written, resp, captures, spins>>

TransportError ==
    /\ pc \in {"send_gcode", "M109", "M190"}
    /\ pc' = "crashed"
    /\ status' = << >>
    /\ UNCHANGED <<f, exists, RECORD, printer, unread, ser, cap, total_lines,
                   lineno, line, target, layer, total_time, warnings,
                   elapsed_time, remaining_time, description, progress,
                   written, resp, captures, spins>>

NextProcess == Next \/ Interrupt \/ TransportError

SpecProcess == Init /\ [][NextProcess]_vars

\* ------------------------------------------------------------ properties
\* What the properties below read off a text is defined here on its own,
\* apart from the functions of main.py above.

Last(q) == q[Len(q)]

\* the commands of w that are not M105 polls
NonPoll(w) == SelectSeq(w, LAMBDA c : c # M105)

\* the text holds the acknowledgment token "ok" in any letter case
ContainsOk(rx) ==
    \E k \in 1..(Len(rx) - 1) : rx[k] \in {"o", "O"} /\ rx[k + 1] \in {"k", "K"}

\* the number a temperature report gives after the tag ("T:" or "B:"): the
\* word that follows the first occurrence of the tag; None when the tag is
\* absent or no number follows it
Reported(tag, rx) ==
    LET at == {k \in 1..(Len(rx) - 1) : rx[k] = tag[1] /\ rx[k + 1] = tag[2]}
        from == SetMin(at) + 2
        stop == {k \in from..Len(rx) : rx[k] \in Whitespace}
        to == IF stop = {} THEN Len(rx) ELSE SetMin(stop) - 1
    IN  IF at = {} THEN None ELSE py_float(SubSeq(rx, from, to))

\* C1: end to end, the file G28 / ;LAYER_CHANGE / M109 S200 / G1 X10 on the
\* stub transport runs to completion without stalling in the nozzle wait:
\* the stub's answer "ok T:200" to an M105 poll never leaves the M109 loop
\* waiting, and at completion exactly one capture, for layer 1, was invoked
\* and the non-poll commands written are G28, M109 S200, G1 X10 in order.
C1_EndToEnd ==
    f = E2EFile =>
        /\ ~(pc = "M109" /\ written # << >> /\ Last(written) = M105)
        /\ pc = "done" =>
            /\ [k \in 1..Len(captures) |-> captures[k].layer] = <<1>>
            /\ NonPoll(written) = <<G28, M109_S200, G1_X10>>

\* C2: the M109 loop is left only on a response that holds "ok" and reports
\* a nozzle temperature T: equal to the target of the command; on a response
\* with any other T: value the loop goes on.
C2_NozzleExact ==
    [][(pc = "M109" /\ pc' # "M109")
         => (ContainsOk(resp') /\ Reported(<<"T",":">>, resp') = target)]_vars

\* C3 as stated: the M190 loop is left at the first response whose B: value
\* is at least the target.
C3_BedExitsOnTemperature ==
    [][(pc = "M190" /\ Reported(<<"B",":">>, resp') # None
                    /\ NumGE(Reported(<<"B",":">>, resp')[1], target[1]))
         => pc' # "M190"]_vars

\* C3, amended: every turn of the M190 loop writes one M105 poll, and the
\* loop is left exactly on a response that holds "ok" and whose B: value is
\* at least the target; a response without "ok", without B:, with a
\* malformed B: or with a B: below the target keeps the loop polling.
C3_BedWait ==
    [][pc = "M190" =>
         /\ written' = Append(written, M105)
         /\ pc' \in {"M190", "loop"}
         /\ pc' = "loop" <=>
              /\ ContainsOk(resp')
              /\ Reported(<<"B",":">>, resp') # None
              /\ NumGE(Reported(<<"B",":">>, resp')[1], target[1])]_vars

\* C3 witness: M190 S60 was polled twice, the second answer (B:60.5, above
\* the target) ended the wait.
C3_Witness ==
    /\ written = <<M190_S60, M105, M105>>
    /\ pc = "loop"
    /\ resp = readline(rx_ok_T200_0_B60_5)

\* text occurs in l, position by position
Occurs(text, l) ==
    \E k \in 0..(Len(l) - Len(text)) : \A j \in 1..Len(text) : l[k + j] = text[j]

\* l begins with text
HasPrefix(l, text) == Len(text) <= Len(l) /\ \A j \in 1..Len(text) : l[j] = text[j]

\* the lines of the catalogue that are blank or whose first visible
\* character is the comment marker
CommentOrBlankLines ==
    {l \in FileLines : \A k \in 1..Len(l) :
        (l[k] \notin Whitespace /\ \A j \in 1..(k - 1) : l[j] \in Whitespace) => l[k] = ";"}

\* comment lines that hold the text LAYER_CHANGE anywhere
NamedLines ==
    {l \in CommentOrBlankLines :
        Occurs(<<"L","A","Y","E","R","_","C","H","A","N","G","E">>, l)}

\* comment lines that hold the marker ;LAYER_CHANGE, the ';' included
MarkerLines ==
    {l \in CommentOrBlankLines :
        Occurs(<<";","L","A","Y","E","R","_","C","H","A","N","G","E">>, l)}

\* C4: the layer counter starts at 0 and, after any prefix of the file, is
\* the number of layer-change lines of that prefix, whatever RECORD is and
\* whatever came of each capture (so it never decreases).
C4_LayerCount == layer = Cardinality({k \in 1..lineno : f[k] \in MarkerLines})

\* C4 witness: two layer changes were counted although both captures failed.
C4_Witness ==
    /\ layer = 2
    /\ captures[1].result = "read_failed"
    /\ captures[2].result = "save_failed"

\* C5 as stated: every comment line that holds LAYER_CHANGE anywhere
\* increments the layer counter and invokes one capture.
C5_AnyLayerChangeText ==
    [][(lineno' = lineno + 1 /\ f[lineno'] \in NamedLines)
         => /\ layer' = layer + 1
            /\ Len(captures') = Len(captures) + 1
            /\ Last(captures').layer = layer']_vars

\* C5, amended: a line is treated as a layer change (counter incremented,
\* one capture invoked for the new layer) exactly when it is a comment line
\* that holds the marker ;LAYER_CHANGE with its ';', whatever text stands
\* before or after the marker.
C5_LayerChangeMarker ==
    [][lineno' = lineno + 1 =>
         IF f[lineno'] \in MarkerLines
         THEN /\ layer' = layer + 1
              /\ Len(captures') = Len(captures) + 1
              /\ Last(captures').layer = layer'
         ELSE UNCHANGED <<layer, captures>>]_vars

\* C5 witness: a marker with text before and after it was counted.
C5_Witness ==
    /\ lineno >= 1
    /\ f[lineno] = WRAPPED_LAYER_CHANGE
    /\ layer = 1
    /\ Len(captures) = 1

\* the effective command of a raw line: the text before the first ';',
\* stripped
EffectiveCommand(raw) ==
    LET semi == {k \in 1..Len(raw) : raw[k] = ";"}
    IN  strip(IF semi = {} THEN raw ELSE SubSeq(raw, 1, SetMin(semi) - 1))

\* the number of the first well-formed S<number> parameter of a command
STarget(raw) ==
    LET w == split_ws(EffectiveCommand(raw))
        ks == {k \in 2..Len(w) : w[k][1] = "S" /\ py_float(Tail(w[k])) # None}
    IN  IF ks = {} THEN None ELSE py_float(Tail(w[SetMin(ks)]))

STargets == [l \in FileLines |-> STarget(l)]

\* the M104/M109/M190 lines that carry a well-formed S<number>
HeatingWithS ==
    {l \in FileLines :
        /\ l \notin CommentOrBlankLines
        /\ \E c \in {<<"M","1","0","4">>, <<"M","1","0","9">>, <<"M","1","9","0">>} :
              HasPrefix(EffectiveCommand(l), c)
        /\ STarget(l) # None}

\* C6: for every M104/M109/M190 line with a well-formed S<number> anywhere
\* in its effective command, the target is that number and the command is
\* written to the printer.
C6_TargetExtracted ==
    [][(lineno' = lineno + 1 /\ f[lineno'] \in HeatingWithS)
         => /\ target' = STargets[f[lineno']]
            /\ Len(written') = Len(written) + 1
            /\ pc' = "send_gcode"]_vars

\* the payload of a ;TIME: line as an integer, of a ;TIME_ELAPSED: line as
\* a number; None for other lines and for malformed payloads
Totals ==
    [l \in FileLines |->
        IF HasPrefix(l, <<";","T","I","M","E",":">>)
        THEN py_int(SubSeq(l, 7, Len(l))) ELSE None]

Elapseds ==
    [l \in FileLines |->
        IF HasPrefix(l, <<";","T","I","M","E","_","E","L","A","P","S","E","D",":">>)
        THEN py_float(SubSeq(l, 15, Len(l))) ELSE None]

\* the most recent well-formed total among the first n lines, None if none
LastTotal(n) ==
    LET ks == {k \in 1..n : Totals[f[k]] # None}
    IN  IF ks = {} THEN None ELSE Totals[f[SetMax(ks)]]

\* the most recent well-formed elapsed time among the first n lines, else 0
LastElapsed(n) ==
    LET ks == {k \in 1..n : Elapseds[f[k]] # None}
    IN  IF ks = {} THEN IntNum(0) ELSE Elapseds[f[SetMax(ks)]][1]

\* lines that start with an annotation prefix and go on with text that is
\* partly a number and partly not, as an annotation on a layer-change line
\* (see C17)
MixedAnnotations ==
    {l \in FileLines :
        \E j \in 1..Len(l) :
            /\ l[j] = ":"
            /\ \/ HasPrefix(l, <<";","T","I","M","E",":">>)
               \/ HasPrefix(l, <<";","T","I","M","E","_","E","L","A","P","S","E","D",":">>)
            /\ \E k \in (j + 1)..Len(l) : IsDigit(l[k])
            /\ \E k \in (j + 1)..Len(l) : ~IsDigit(l[k]) /\ l[k] \notin {".", "-"}}

MalformedAnnotations ==
    {l \in FileLines \ MarkerLines :
        \/ HasPrefix(l, <<";","T","I","M","E",":">>) /\ Totals[l] = None
        \/ HasPrefix(l, <<";","T","I","M","E","_","E","L","A","P","S","E","D",":">>)
             /\ Elapseds[l] = None}

\* C8: a time annotation with a malformed payload does not end the run and
\* changes neither the total (the unknown marker included), the elapsed
\* time nor the layer counter, and nothing is written to or read from the
\* printer.
C8_MalformedIgnored ==
    [][(lineno' = lineno + 1 /\ f[lineno'] \in MalformedAnnotations)
         => /\ UNCHANGED <<total_time, elapsed_time, layer, written, resp, captures>>
            /\ pc' = "loop"]_vars

\* C8 witness: ;TIME:abc was processed after ;TIME:100 and the total is
\* still 100.
C8_Witness ==
    /\ f = <<TIME_100, TIME_abc>>
    /\ lineno = 2
    /\ total_time = Some(100)
    /\ pc = "loop"

\* C9: a command is written once, when send_gcode is entered; while
\* send_gcode waits nothing is written (no resend, no later command), and it
\* returns exactly on a line that holds "ok" in any letter case: empty reads
\* and other lines keep it waiting.
C9_SendGcode ==
    [][/\ (pc # "send_gcode" /\ pc' = "send_gcode") => written' = Append(written, line')
       /\ pc = "send_gcode" =>
            /\ written' = written
            /\ pc' # "send_gcode" <=> ContainsOk(resp')]_vars

\* C9 witness: send_gcode returned after two reads that were not the
\* acknowledgment; the command was written once.
C9_Witness ==
    /\ pc = "loop"
    /\ Len(written) = 1
    /\ spins >= 2
    /\ progress = 1
    /\ ContainsOk(resp)

\* C10: no command written to the printer holds a ';': an inline comment is
\* removed before the line is transmitted.
C10_EffectiveCommand ==
    \A k \in 1..Len(written) : \A j \in 1..Len(written[k]) : written[k][j] # ";"

\* the run has ended: by end of file, or by an exception nothing caught
Ended == pc \in {"done", "crashed", "interrupted"}

\* C11: on every path by which a run ends after the transport was opened
\* (end of file, a G-code file-open error, a transport error, an interrupt
\* during an acknowledgment or temperature wait) the transport is closed and
\* the capture sink, if opened, is released.
C11_ClosedOnEveryEnd ==
    (Ended /\ ser # "unopened") => (ser = "closed" /\ cap # "open")

\* C12: a missing G-code file is detected before the serial transport is
\* opened: in no run with a missing file is the transport ever opened.
C12_MissingFileBeforeOpen ==
    ~exists => ser = "unopened"

\* C13: once the first command line is reached with no ;TIME: seen, the
\* estimator is in the unknown state for good: the warning is logged exactly
\* once, and from then on no remaining-time estimate is emitted for any
\* later comment line, whatever annotations follow.
C13_UnknownForGood ==
    [][ /\ warnings' <= 1
        /\ warnings >= 1 => description' = description ]_vars

\* C14: each layer-change line invokes the capture exactly once, with the
\* counter already incremented, before any later line is taken: at every
\* moment the layers handed to the capture are 1, 2, ..., n in order, one per
\* layer-change line taken so far. The capture always returns, and whatever
\* its outcome (saved, failed, recording off) the loop is then ready for the
\* next line of the file.
C14_CaptureEachLayer ==
    /\ Len(captures) = Cardinality({k \in 1..lineno : f[k] \in MarkerLines})
    /\ \A k \in 1..Len(captures) : captures[k].layer = k
    /\ Len(captures) = layer
    /\ (lineno >= 1 /\ f[lineno] \in MarkerLines) => pc \in {"loop", "done"}
    /\ take_picture(RECORD) # {}

\* two layer changes were captured, the first capture failed, and the run
\* went on to its end
C14_Witness ==
    /\ pc = "done"
    /\ Len(captures) = 2
    /\ captures[1].result \in {"read_failed", "save_failed"}
    /\ captures[2].layer = 2

\* the heating commands of the catalogue for which no target could be read
DroppedLines ==
    {l \in FileLines \ CommentOrBlankLines :
        /\ \E c \in {<<"M","1","0","4">>, <<"M","1","0","9">>, <<"M","1","9","0">>} :
              HasPrefix(strip(l), c)
        /\ Decoded[l].target = None}

\* the other command lines
KeptLines == (FileLines \ CommentOrBlankLines) \ DroppedLines

\* a line without its surrounding whitespace
Stripped == [l \in FileLines |-> strip(l)]

\* the kept lines among the first n lines of the file, in file order, each
\* without its surrounding whitespace
Kept(n) ==
    LET s == SelectSeq(SubSeq(f, 1, n), LAMBDA l : l \in KeptLines)
    IN  [k \in 1..Len(s) |-> Stripped[s[k]]]

\* C15: a heating command whose temperature cannot be parsed is dropped: the
\* step that takes it writes nothing and enters no wait loop, and the loop is
\* ready for the next line; apart from M105 polls, the commands written are
\* exactly the other non-blank, non-comment lines taken so far, each once,
\* in file order.
C15_DroppedHeating ==
    [][ /\ NonPoll(written') = Kept(lineno')
        /\ (lineno' = lineno + 1 /\ f[lineno'] \in DroppedLines)
              => (written' = written /\ pc' = "loop") ]_vars

\* a heating command without a target was taken and the command after it
\* was written
C15_Witness ==
    /\ lineno = 2
    /\ f[1] \in DroppedLines
    /\ f[2] = G28
    /\ written = <<G28>>

\* C16: processing a blank or comment line leaves the transport untouched:
\* nothing is written to it, nothing is read from it, and the progress
\* counter is unchanged; of the session state only the layer counter and the
\* fields of the time estimate may change.
C16_CommentFrame ==
    [][ (lineno' = lineno + 1 /\ f[lineno'] \in CommentOrBlankLines)
          => UNCHANGED <<written, resp, spins, progress, pc, target, warnings,
                         ser, cap, total_lines>> ]_vars

\* a layer-change comment was processed after a command had been written
C16_Witness ==
    /\ lineno = 2
    /\ f[1] = G28
    /\ f[2] = LAYER_CHANGE
    /\ layer = 1
    /\ written = <<G28>>
    /\ progress = 1

\* C17: a line is handled as one kind of instruction, layer change first: a
\* comment line that holds the layer-change marker and also starts with a
\* time annotation prefix increments the layer counter and triggers the
\* capture, and updates neither the total nor the elapsed time.
C17_LayerChangePriority ==
    [][ (lineno' = lineno + 1 /\ f[lineno'] \in MarkerLines)
          => /\ layer' = layer + 1
             /\ Len(captures') = Len(captures) + 1
             /\ total_time' = total_time
             /\ elapsed_time' = elapsed_time ]_vars

\* C18: every command written to the transport, each M105 poll of the wait
\* loops included, and every non-empty line read from it produces a status
\* event: the step that writes a command logs an event with the command's
\* text, the step that reads a line logs an event with the line's text.
C18_StatusEvents ==
    [][ /\ written' # written
          => \E k \in 1..Len(status') : status'[k][2] = Last(written')
        /\ (pc \in {"send_gcode", "M109", "M190"} /\ resp' # << >>)
          => \E k \in 1..Len(status') : status'[k][2] = resp' ]_vars

\* C19: against a printer that answers each command with one "ok" line,
\* possibly after read timeouts, at no point is more than one command
\* outstanding with its answer unread; in particular no unread answer
\* remains when send_gcode or a wait loop is left, so the "ok" that ends the
\* next send_gcode is the answer to its own command.
C19_OneOutstanding ==
    printer = "ok" =>
        /\ unread <= 1
        /\ pc \in {"loop", "done"} => unread = 0

\* how many of the first n lines of the file are commands
Commands(n) == Cardinality({k \in 1..n : f[k] \notin CommentOrBlankLines})

\* C20: the progress counter never goes back; it advances by exactly one for
\* each non-blank, non-comment line processed, dropped heating commands
\* included, and for a line that is sent only once its acknowledgment and its
\* wait loop are over; it never exceeds the total that
\* count_non_comment_lines computed, and equals it at completion.
C20_Progress ==
    [][ /\ progress' \in {progress, progress + 1}
        /\ progress' = IF pc' \in {"send_gcode", "M109", "M190"}
                       THEN Commands(lineno') - 1 ELSE Commands(lineno')
        /\ total_lines' # None => progress' <= total_lines'[1]
        /\ pc' = "done" => progress' = total_lines'[1] ]_vars

\* a run that dropped a heating command and waited for the nozzle on the
\* next one is complete
C20_Witness ==
    /\ pc = "done"
    /\ Len(f) = 2
    /\ f[1] \in DroppedLines
    /\ f[2] = M109_S200
    /\ progress = 2
    /\ total_lines = Some(2)

====
